---- MODULE Spec2Model ----
(***************************************************************************)
(* NuclearFluoro: nucleus segmentation and per-nucleus measurement.        *)
(*                                                                         *)
(* Spec models one call of segmentation.process_image, one action per      *)
(* statement group of the function.  PipelineSpec models one call of       *)
(* run_pipeline.run_pipeline over a directory, with process_image as one   *)
(* step of the loop body.                                                  *)
(*                                                                         *)
(* Units.  Raw pixels are integers.  np.median of an even number of pixels *)
(* is a half-integer, so bg and fl_corr are held in half-units (bg = 2 *   *)
(* median).  The Otsu threshold is a histogram bin centre, a multiple of   *)
(* 1/1024 for nbins = 256, so thresh is held in units of 1/1024.           *)
(***************************************************************************)
EXTENDS Integers, Sequences, FiniteSets, TLC

\* ---------------------------------------------------------------- bounds
Height == 3
Width == 3
MaxBright == 4
MaxMinSize == 2
MaxFiles == 3

\* def process_image(image_path, min_nucleus_size=100, save_labels_path=None)
DefaultMinNucleusSize == 100

\* skimage.filters.threshold_otsu(image, nbins=256)
nbins == 256

\* ------------------------------------------------------------ arithmetic
Max(a, b) == IF a >= b THEN a ELSE b

Abs(a) == IF a >= 0 THEN a ELSE -a

RECURSIVE GCD(_, _)
GCD(a, b) == IF b = 0 THEN a ELSE GCD(b, a % b)

\* A float quotient n / d, kept exact: the fraction in lowest terms.
Rat(n, d) == LET g == GCD(n, d) IN [num |-> n \div g, den |-> d \div g]

\* int * float
RatTimes(k, q) == Rat(k * q.num, q.den)

\* Sign of a/b - c/d for naturals a, c and positive b, d, by continued
\* fractions: no product is formed, so nothing overflows.
RECURSIVE CmpFrac(_, _, _, _)
CmpFrac(a, b, c, d) ==
    LET qa == a \div b
        qc == c \div d
        ra == a % b
        rc == c % d
    IN  IF qa # qc THEN (IF qa < qc THEN -1 ELSE 1)
        ELSE IF ra = 0 /\ rc = 0 THEN 0
        ELSE IF ra = 0 THEN -1
        ELSE IF rc = 0 THEN 1
        ELSE CmpFrac(d, rc, b, ra)

\* Sign of a*b - c*d for naturals.
CmpProd(a, b, c, d) ==
    IF a = 0 \/ b = 0 THEN (IF c = 0 \/ d = 0 THEN 0 ELSE -1)
    ELSE IF c = 0 \/ d = 0 THEN 1
    ELSE CmpFrac(a, c, d, b)

\* ------------------------------------------------------------ pixel grids
\* An image of shape <<h, w>> is a function on Pix(h, w); a boolean mask is
\* the set of its true pixels.
Pix(h, w) == (1..h) \X (1..w)

\* Row-major (C order) enumeration of the pixels, as ravel() and the
\* labelers' raster scans visit them.
Raster(h, w) == [i \in 1..(h * w) |-> <<((i - 1) \div w) + 1, ((i - 1) % w) + 1>>]

\* ndi.generate_binary_structure(2, connectivity): 1 = edge neighbours,
\* 2 = edge and corner neighbours.
Adjacent(connectivity, p, q) ==
    LET dr == Abs(p[1] - q[1])
        dc == Abs(p[2] - q[2])
    IN  IF connectivity = 1 THEN dr + dc = 1
        ELSE dr <= 1 /\ dc <= 1 /\ dr + dc >= 1

\* Flood of S from the pixels of frontier (all already in seen).
RECURSIVE Flood(_, _, _, _)
Flood(S, connectivity, frontier, seen) ==
    IF frontier = {} THEN seen
    ELSE LET nxt == {q \in S \ seen : \E p \in frontier : Adjacent(connectivity, p, q)}
         IN  Flood(S, connectivity, nxt, seen \cup nxt)

\* Connected-component labeling in raster order: the first pixel of each
\* component met by the scan takes the next number, starting at 1.
RECURSIVE LabelScan(_, _, _, _, _, _)
LabelScan(mask, connectivity, order, i, lab, next) ==
    IF i > Len(order) THEN lab
    ELSE LET p == order[i]
         IN  IF p \notin mask \/ lab[p] # 0
             THEN LabelScan(mask, connectivity, order, i + 1, lab, next)
             ELSE LET comp == Flood(mask, connectivity, {p}, {p})
                  IN  LabelScan(mask, connectivity, order, i + 1,
                                [q \in DOMAIN lab |-> IF q \in comp THEN next ELSE lab[q]],
                                next + 1)

Components(mask, connectivity, h, w) ==
    LabelScan(mask, connectivity, Raster(h, w), 1, [p \in Pix(h, w) |-> 0], 1)

MaxLabel(lab) == IF DOMAIN lab = {} THEN 0
                 ELSE CHOOSE m \in {lab[p] : p \in DOMAIN lab} :
                        \A p \in DOMAIN lab : lab[p] <= m

\* np.bincount(ccs.ravel())
Bincount(lab) == [l \in 0..MaxLabel(lab) |-> Cardinality({p \in DOMAIN lab : lab[p] = l})]

RECURSIVE SumFn(_, _)
SumFn(f, S) == IF S = {} THEN 0
               ELSE LET x == CHOOSE y \in S : TRUE IN f[x] + SumFn(f, S \ {x})

\* --------------------------------------------------- background correction
\* k-th smallest pixel value (k from 1) of the flattened image.
Kth(a, k) ==
    CHOOSE v \in {a[p] : p \in DOMAIN a} :
        /\ Cardinality({p \in DOMAIN a : a[p] < v}) < k
        /\ Cardinality({p \in DOMAIN a : a[p] <= v}) >= k

\* np.median(img), in half-units: the middle value, or the mean of the two
\* middle values when the pixel count is even.
Median2(a) ==
    LET n == Cardinality(DOMAIN a)
    IN  IF n % 2 = 1 THEN 2 * Kth(a, (n + 1) \div 2)
        ELSE Kth(a, n \div 2) + Kth(a, (n \div 2) + 1)

\* img - bg (float, may be negative), in half-units.
Shifted(a, bg2) == [p \in DOMAIN a |-> 2 * a[p] - bg2]

\* Mutant: the clip at 0 left out.
Clip0_NoClip(a, bg2) == [p \in DOMAIN a |-> 2 * a[p] - bg2]

\* np.clip(img.astype(float) - bg, 0, None), in half-units.
Clip0(a, bg2) == [p \in DOMAIN a |-> Max(2 * a[p] - bg2, 0)]

\* ------------------------------------------------------------------- Otsu
\* np.histogram(x, bins=nbins, range=(lo, hi)): nbins equal bins, the last
\* one closed on the right.
HistBin(v, lo, hi) == IF v = hi THEN nbins - 1 ELSE ((v - lo) * nbins) \div (hi - lo)

\* filters.threshold_otsu(x) for a float image x (half-units), as the set of
\* values it can return, in units of 1/1024.
\*  - constant image: the first pixel's value;
\*  - otherwise bin_centers[argmax(variance12)], where for k in 0..nbins-2
\*    variance12[k] = weight1[k] * weight2[k+1] * (mean1[k] - mean2[k+1])^2.
\* variance12 is unchanged from one occupied bin up to the next one, and
\* np.argmax returns the first maximal index, so the index returned is an
\* occupied bin.  The class means enter only through their difference, so
\* the bin index stands for the bin centre (centre = lo + (2k+1)(hi-lo)/(2
\* nbins)); variance12[k] is then A[k]^2 / D[k] below, compared exactly.
\* Two different splits of exactly equal variance are told apart by float
\* rounding only: every such index is a possible result.
ThresholdOtsu(x) ==
    LET P == DOMAIN x
        vals == {x[p] : p \in P}
        lo == CHOOSE v \in vals : \A u \in vals : v <= u
        hi == CHOOSE v \in vals : \A u \in vals : v >= u
        first_pixel == x[<<1, 1>>]
    IN  IF \A p \in P : x[p] = first_pixel THEN {512 * first_pixel}
        ELSE
        LET bin == [p \in P |-> HistBin(x[p], lo, hi)]
            occ == {bin[p] : p \in P}
            n == Cardinality(P)
            counts == [b \in occ |-> Cardinality({p \in P : bin[p] = b})]
            mass == [b \in occ |-> b * counts[b]]
            cand == {k \in occ : k < nbins - 1}
            weight1 == [k \in cand |-> SumFn(counts, {b \in occ : b <= k})]
            sum1 == [k \in cand |-> SumFn(mass, {b \in occ : b <= k})]
            total == SumFn(mass, occ)
            A == [k \in cand |->
                    Abs(sum1[k] * (n - weight1[k]) - (total - sum1[k]) * weight1[k])]
            D == [k \in cand |-> weight1[k] * (n - weight1[k])]
            idx == {k \in cand :
                      \A j \in cand : CmpProd(A[k], A[k] * D[j], A[j], A[j] * D[k]) >= 0}
        IN  {512 * lo + (2 * k + 1) * (hi - lo) : k \in idx}

\* Mutant: >= in place of >.
Above_OrEqual(a, t) == {p \in DOMAIN a : 1024 * a[p] >= t}

\* img > thresh, the comparison made on the raw pixel values.
Above(a, t) == {p \in DOMAIN a : 1024 * a[p] > t}

\* ----------------------------------------------------- morphological cleanup
\* Mutant: the result of the removal is dropped.
RemoveSmallObjects_Discarded(ar, min_size, h, w) == ar

\* morphology.remove_small_objects(ar, min_size), connectivity=1 by default:
\* returns at once for min_size == 0, else labels ar with edge
\* neighbours and clears every pixel whose component has
\* component_sizes < min_size.
RemoveSmallObjects(ar, min_size, h, w) ==
    IF min_size = 0 THEN ar
    ELSE LET ccs == Components(ar, 1, h, w)
             component_sizes == Bincount(ccs)
         IN  {p \in ar : ~(component_sizes[ccs[p]] < min_size)}

\* Mutant: the background flooded through corners too.
BinaryFillHoles_Corner(input, h, w) ==
    LET background == Pix(h, w) \ input
        border == {p \in background : p[1] \in {1, h} \/ p[2] \in {1, w}}
    IN  Pix(h, w) \ Flood(background, 2, border, border)

\* ndimage.binary_fill_holes(input), default structure (edge neighbours):
\* the complement of the background flooded from outside the image.
BinaryFillHoles(input, h, w) ==
    LET background == Pix(h, w) \ input
        border == {p \in background : p[1] \in {1, h} \/ p[2] \in {1, w}}
    IN  Pix(h, w) \ Flood(background, 1, border, border)

\* Mutant: edge neighbours only.
MeasureLabel_EdgeOnly(mask, h, w) == Components(mask, 1, h, w)

\* measure.label(mask): connectivity=None is full connectivity (edge and
\* corner neighbours in 2D); false pixels are background, label 0.
MeasureLabel(mask, h, w) == Components(mask, 2, h, w)

\* ------------------------------------------------------------- measurement
\* measure.regionprops_table(label_img, intensity_image, ("label", "area",
\* "mean_intensity")): one row per label value present, ascending.
RECURSIVE PropsFrom(_, _, _)
PropsFrom(lab, intensity, l) ==
    IF l > MaxLabel(lab) THEN <<>>
    ELSE LET region == {p \in DOMAIN lab : lab[p] = l}
         IN  IF region = {} THEN PropsFrom(lab, intensity, l + 1)
             ELSE <<[label |-> l,
                     area |-> Cardinality(region),
                     mean_intensity |-> Rat(SumFn(intensity, region),
                                            2 * Cardinality(region))]>>
                  \o PropsFrom(lab, intensity, l + 1)

RegionpropsTable(lab, intensity) == PropsFrom(lab, intensity, 1)

\* pd.DataFrame(props) with the two added columns.
DataFrame(props, id) ==
    [i \in 1..Len(props) |->
        [label |-> props[i].label,
         area |-> props[i].area,
         mean_intensity |-> props[i].mean_intensity,
         integrated_intensity |-> RatTimes(props[i].area, props[i].mean_intensity),
         image_id |-> id]]

\* ------------------------------------------------------------------ inputs
\* An image of h x w pixels: level[3] on the pixels of F, level[1] on those
\* of G, level[2] elsewhere.
Levels(h, w, F, G, level) ==
    [shape |-> <<h, w>>,
     data |-> [p \in Pix(h, w) |->
                 IF p \in F THEN level[3] ELSE IF p \in G THEN level[1] ELSE level[2]]]

Square3(r, c) == (r..(r + 2)) \X (c..(c + 2))

\* The 10x10 test image: two separated 3x3 squares of 200 on a background of 10.
ScenarioImage == Levels(10, 10, Square3(2, 2) \cup Square3(6, 6), {}, <<10, 10, 200>>)

UpTo(S, n) == {T \in SUBSET S : Cardinality(T) <= n}

\* Height x Width images:
\*  - up to MaxBright pixels of 1 on a background of 0;
\*  - up to MaxBright - 3 pixels of 200 on a background of 10;
\*  - up to MaxBright - 3 pixels of 3 and at most one pixel of 0 on a
\*    background of 1.
SmallImages ==
    {Levels(Height, Width, F, {}, <<0, 0, 1>>) : F \in UpTo(Pix(Height, Width), MaxBright)}
    \cup
    {Levels(Height, Width, F, {}, <<10, 10, 200>>) :
        F \in UpTo(Pix(Height, Width), MaxBright - 3)}
    \cup
    {Levels(Height, Width, F, G, <<0, 1, 3>>) :
        F \in UpTo(Pix(Height, Width), MaxBright - 3), G \in UpTo(Pix(Height, Width), 1)}

\* All-zero images of every shape up to Height x Width.
ZeroImages == {Levels(h, w, {}, {}, <<0, 0, 0>>) : h \in 1..Height, w \in 1..Width}

Images == SmallImages \cup ZeroImages \cup {ScenarioImage}

MinSizes == (-1..MaxMinSize) \cup {DefaultMinNucleusSize}

None == "None"

\* A file tifffile.imread cannot decode.
Corrupt == [shape |-> <<0, 0>>, data |-> <<>>]

\* The images of the batch runs: 5, 0 and 3 separate bright pixels.
Catalog ==
    {Levels(3, 5, {<<1, 1>>, <<1, 3>>, <<1, 5>>, <<3, 1>>, <<3, 3>>}, {}, <<0, 0, 1>>),
     Levels(3, 3, {}, {}, <<0, 0, 0>>),
     Levels(3, 3, {<<1, 1>>, <<1, 3>>, <<3, 1>>}, {}, <<0, 0, 1>>),
     Corrupt}

\* ------------------------------------------------------------- file system
\* A directory maps file names [stem, ext] to contents.  Stems are numbers,
\* ordered as the names they stand for.
Names == [stem : 1..MaxFiles, ext : {".tif", ".png"}]

\* Every directory holding, for each stem, nothing, a .png or a .tif.
Directories ==
    {d \in UNION {[N -> Catalog] : N \in SUBSET Names} :
        /\ \A n \in DOMAIN d : n.ext = ".png" => d[n] = Corrupt
        /\ \A n, m \in DOMAIN d : n.stem = m.stem => n = m}

\* input_dir.glob("*.tif")
Glob(d) == {n \in DOMAIN d : n.ext = ".tif"}

\* sorted(paths): ascending by name.
RECURSIVE Sorted(_)
Sorted(S) ==
    IF S = {} THEN <<>>
    ELSE LET n == CHOOSE x \in S : \A y \in S : x.stem <= y.stem
         IN  <<n>> \o Sorted(S \ {n})

\* Path.stem
Stem(n) == n.stem

\* A file written below output_dir.
Write(disk, path, content) ==
    [q \in DOMAIN disk \cup {path} |-> IF q = path THEN content ELSE disk[q]]

LabelsPath(id) == <<"labels", id, "_labels.tif">>
OverlayPath(id) == <<"overlays", id, "_overlays.png">>
BoundariesPath(id) == <<"boundaries", id, "_boundaries.png">>
CsvPath == <<"nucleus_measurements.csv">>

\* Mutant: only the last image's table is kept.
PdConcat_Last(frames) == IF frames = <<>> THEN <<>> ELSE frames[Len(frames)]

\* pd.concat(frames, ignore_index=True)
RECURSIVE PdConcat(_)
PdConcat(frames) ==
    IF frames = <<>> THEN <<>> ELSE Head(frames) \o PdConcat(Tail(frames))

\* Mutant: `if all_results is not None:`.
Truthy_NotNone(list) == Len(list) >= 0

\* `if all_results:` -- the list of per-image tables is not empty.
Truthy(list) == list # <<>>

\* ------------------------------------------------------------------- state
VARIABLES
    pc,                 \* the statement about to run
    caller,             \* who called process_image: None or "run_pipeline"
    \* process_image: arguments and locals
    image_path, min_nucleus_size, save_labels_path,
    image_id, shape, img, bg, fl_corr, thresh, nuc_mask, label_img, df,
    \* run_pipeline: the input directory's files, and locals
    input_dir, todo, all_results, console,
    \* files below output_dir
    disk

args == <<image_path, min_nucleus_size, save_labels_path>>
locals == <<image_id, shape, img, bg, fl_corr, thresh, nuc_mask, label_img, df>>
driver == <<input_dir, todo, all_results, console>>
vars == <<pc, caller, args, locals, driver, disk>>

NoLocals ==
    /\ image_id = None /\ shape = None /\ img = None /\ bg = None
    /\ fl_corr = None /\ thresh = None /\ nuc_mask = None
    /\ label_img = None /\ df = None

\* One call process_image(image_path, min_nucleus_size, save_labels_path), as
\* made at run_pipeline.py line 54, on any image.
Init ==
    /\ pc = "imread"
    /\ caller = None
    /\ image_path \in [stem : {1}, ext : {".tif"}]
    /\ input_dir \in [{image_path} -> Images]
    /\ min_nucleus_size \in MinSizes
    /\ save_labels_path = "labels"
    /\ NoLocals
    /\ todo = <<>> /\ all_results = <<>> /\ console = <<>>
    /\ disk = <<>>

\* One call run_pipeline(input_dir, output_dir, min_nucleus_size).
PipelineInit ==
    /\ pc = "run_pipeline"
    /\ caller = None
    /\ input_dir \in Directories
    /\ min_nucleus_size \in MinSizes
    /\ image_path = None /\ save_labels_path = None
    /\ NoLocals
    /\ todo = <<>> /\ all_results = <<>> /\ console = <<>>
    /\ disk = <<>>

\* ----------------------------------------------------------- process_image
\* (line numbers of segmentation.py)
\* lines 50-54: tifffile.imread raises on a file it cannot decode.
Imread ==
    /\ pc = "imread"
    /\ image_id' = Stem(image_path)
    /\ IF input_dir[image_path] = Corrupt
       THEN /\ pc' = "raised"
            /\ UNCHANGED <<shape, img>>
       ELSE /\ shape' = input_dir[image_path].shape
            /\ img' = input_dir[image_path].data
            /\ pc' = "background"
    /\ UNCHANGED <<caller, args, bg, fl_corr, thresh, nuc_mask, label_img, df,
                   driver, disk>>

\* lines 57-58
BackgroundCorrection ==
    /\ pc = "background"
    /\ bg' = Median2(img)
    /\ fl_corr' = Clip0(img, Median2(img))
    /\ pc' = "threshold"
    /\ UNCHANGED <<caller, args, image_id, shape, img, thresh, nuc_mask, label_img,
                   df, driver, disk>>

\* lines 61-62
Threshold ==
    /\ pc = "threshold"
    /\ \E t \in ThresholdOtsu(Shifted(img, bg)) :
          /\ thresh' = t
          /\ nuc_mask' = Above(img, t)
    /\ pc' = "remove_small"
    /\ UNCHANGED <<caller, args, image_id, shape, img, bg, fl_corr, label_img, df,
                   driver, disk>>

\* line 63
RemoveSmall ==
    /\ pc = "remove_small"
    /\ nuc_mask' = RemoveSmallObjects(nuc_mask, min_nucleus_size, shape[1], shape[2])
    /\ pc' = "fill_holes"
    /\ UNCHANGED <<caller, args, image_id, shape, img, bg, fl_corr, thresh, label_img,
                   df, driver, disk>>

\* line 64
FillHoles ==
    /\ pc = "fill_holes"
    /\ nuc_mask' = BinaryFillHoles(nuc_mask, shape[1], shape[2])
    /\ pc' = "label"
    /\ UNCHANGED <<caller, args, image_id, shape, img, bg, fl_corr, thresh, label_img,
                   df, driver, disk>>

\* lines 65-74
Label ==
    /\ pc = "label"
    /\ label_img' = MeasureLabel(nuc_mask, shape[1], shape[2])
    /\ disk' = IF save_labels_path # None
               THEN Write(disk, LabelsPath(image_id),
                          MeasureLabel(nuc_mask, shape[1], shape[2]))
               ELSE disk
    /\ pc' = "measure"
    /\ UNCHANGED <<caller, args, image_id, shape, img, bg, fl_corr, thresh, nuc_mask,
                   df, driver>>

\* lines 77-87; control returns to run_pipeline.py line 56 when run_pipeline
\* made the call.
Measure ==
    /\ pc = "measure"
    /\ df' = DataFrame(RegionpropsTable(label_img, fl_corr), image_id)
    /\ pc' = IF caller = "run_pipeline" THEN "save_overlay" ELSE "done"
    /\ UNCHANGED <<caller, args, image_id, shape, img, bg, fl_corr, thresh, nuc_mask,
                   label_img, driver, disk>>

ProcessImage == Imread \/ BackgroundCorrection \/ Threshold \/ RemoveSmall
                  \/ FillHoles \/ Label \/ Measure

\* ------------------------------------------------------------- run_pipeline
\* run_pipeline.py lines 38-51: the output directories, the empty result list, the sorted
\* list of matching files.
RunPipeline ==
    /\ pc = "run_pipeline"
    /\ all_results' = <<>>
    /\ todo' = Sorted(Glob(input_dir))
    /\ pc' = "for"
    /\ UNCHANGED <<caller, args, locals, input_dir, console, disk>>

\* run_pipeline.py lines 51-54: the next file, and the call of process_image on it.
ForNext ==
    /\ pc = "for"
    /\ todo # <<>>
    /\ image_path' = Head(todo)
    /\ todo' = Tail(todo)
    /\ console' = Append(console, <<"Processing", Head(todo)>>)
    /\ save_labels_path' = "labels"
    /\ caller' = "run_pipeline"
    /\ image_id' = None /\ shape' = None /\ img' = None /\ bg' = None
    /\ fl_corr' = None /\ thresh' = None /\ nuc_mask' = None
    /\ label_img' = None /\ df' = None
    /\ pc' = "imread"
    /\ UNCHANGED <<min_nucleus_size, input_dir, all_results, disk>>

\* run_pipeline.py lines 56-62
SaveOverlay ==
    /\ pc = "save_overlay"
    /\ disk' = Write(disk, OverlayPath(image_id), "png")
    /\ pc' = "save_boundaries"
    /\ UNCHANGED <<caller, args, locals, driver>>

\* run_pipeline.py lines 64-68
SaveBoundaries ==
    /\ pc = "save_boundaries"
    /\ disk' = Write(disk, BoundariesPath(image_id), "png")
    /\ pc' = "save_label_mask"
    /\ UNCHANGED <<caller, args, locals, driver>>

\* run_pipeline.py lines 70-75
SaveLabelMask ==
    /\ pc = "save_label_mask"
    /\ disk' = Write(disk, LabelsPath(image_id), label_img)
    /\ all_results' = Append(all_results, df)
    /\ caller' = None
    /\ pc' = "for"
    /\ UNCHANGED <<args, locals, input_dir, todo, console>>

\* run_pipeline.py lines 77-81
SaveCsv ==
    /\ pc = "for"
    /\ todo = <<>>
    /\ Truthy(all_results)
    /\ disk' = Write(disk, CsvPath, PdConcat(all_results))
    /\ console' = Append(console, <<"Saved measurements for", Len(PdConcat(all_results))>>)
    /\ pc' = "done"
    /\ UNCHANGED <<caller, args, locals, input_dir, todo, all_results>>

\* run_pipeline.py lines 82-83
NothingSaved ==
    /\ pc = "for"
    /\ todo = <<>>
    /\ ~Truthy(all_results)
    /\ console' = Append(console, <<"No images processed. No measurements saved.">>)
    /\ pc' = "done"
    /\ UNCHANGED <<caller, args, locals, input_dir, todo, all_results, disk>>

Next == ProcessImage

PipelineNext == ProcessImage \/ RunPipeline \/ ForNext \/ SaveOverlay
                  \/ SaveBoundaries \/ SaveLabelMask \/ SaveCsv \/ NothingSaved

Spec == Init /\ [][Next]_vars

PipelineSpec == PipelineInit /\ [][PipelineNext]_vars

\* ------------------------------------------------- vocabulary of the claims
\* Pixels that share an edge or a corner.
Touching(p, q) == p # q /\ (p[1] - q[1]) \in -1..1 /\ (p[2] - q[2]) \in -1..1

\* Pixels that share an edge.
EdgeTouching(p, q) == Touching(p, q) /\ (p[1] = q[1] \/ p[2] = q[2])

\* The pixels of S joined to R by chains of touching pixels of S.
RECURSIVE Region8(_, _)
Region8(S, R) ==
    LET more == {q \in S \ R : \E p \in R : Touching(p, q)}
    IN  IF more = {} THEN R ELSE Region8(S, R \cup more)

RECURSIVE Region4(_, _)
Region4(S, R) ==
    LET more == {q \in S \ R : \E p \in R : EdgeTouching(p, q)}
    IN  IF more = {} THEN R ELSE Region4(S, R \cup more)

\* The regions of S: its partition into maximal sets of chained pixels.
RECURSIVE Regions8(_)
Regions8(S) ==
    IF S = {} THEN {}
    ELSE LET R == Region8(S, {CHOOSE p \in S : TRUE}) IN {R} \cup Regions8(S \ R)

RECURSIVE Regions4(_)
Regions4(S) ==
    IF S = {} THEN {}
    ELSE LET R == Region4(S, {CHOOSE p \in S : TRUE}) IN {R} \cup Regions4(S \ R)

InputImage == input_dir[image_path]
AllPixels == Pix(InputImage.shape[1], InputImage.shape[2])
OnBorder(p) == p[1] \in {1, InputImage.shape[1]} \/ p[2] \in {1, InputImage.shape[2]}

\* The mask right after thresholding (line 62).
Thresholded == Above(img, thresh)

\* Background pixels of mask whose edge-connected background region touches
\* the image border, and those whose region does not (the holes).
OpenBackground(mask) ==
    UNION {R \in Regions4(AllPixels \ mask) : \E q \in R : OnBorder(q)}
Holes(mask) == (AllPixels \ mask) \ OpenBackground(mask)

\* One foreground region (in the labeler's sense) enclosing exactly one
\* background pixel.
IsRing(mask) ==
    /\ Regions8(mask) = {mask}
    /\ Cardinality(Holes(mask)) = 1

PositiveLabels(lab) == {lab[p] : p \in DOMAIN lab} \ {0}
RegionOf(lab, l) == {p \in DOMAIN lab : lab[p] = l}

\* m2 / 2 is the median of a: the mean of the two middle values of the
\* sorted pixels (the same value twice for an odd count).
HasRank(a, v, k) ==
    /\ Cardinality({p \in DOMAIN a : a[p] < v}) < k
    /\ Cardinality({p \in DOMAIN a : a[p] <= v}) >= k
IsMedian2(a, m2) ==
    LET n == Cardinality(DOMAIN a)
    IN  \E p, q \in DOMAIN a :
            /\ HasRank(a, a[p], (n + 1) \div 2)
            /\ HasRank(a, a[q], (n \div 2) + 1)
            /\ m2 = a[p] + a[q]

\* --------------------------------------------------------------------- C1
\* C1: process_image on the 10x10 image (background 10, two separated 3x3
\* squares of 200) with min_nucleus_size = 1 returns exactly 2 positive
\* labels, each covering exactly one square, and a table of 2 rows, each of
\* area 9 and mean_intensity 190.
C1_ScenarioTwoNuclei ==
    (pc = "done" /\ InputImage = ScenarioImage /\ min_nucleus_size = 1) =>
        /\ Cardinality(PositiveLabels(label_img)) = 2
        /\ \A sq \in {Square3(2, 2), Square3(6, 6)} :
              \E l \in PositiveLabels(label_img) : RegionOf(label_img, l) = sq
        /\ Len(df) = 2
        /\ \A i \in 1..Len(df) :
              df[i].area = 9 /\ df[i].mean_intensity = [num |-> 190, den |-> 1]

\* --------------------------------------------------------------------- C2
\* C2: the returned table agrees with the returned label image: one row per
\* positive label and no other row, labels strictly ascending, area = the
\* number of pixels carrying the label (>= 1, summing to the number of
\* non-zero pixels), mean_intensity = the average of max(raw - median(raw),
\* 0) over them, integrated_intensity = area * mean_intensity.
C2_TableMatchesLabels ==
    pc = "done" =>
        LET n == Len(df)
            corrected == [p \in DOMAIN img |-> Max(2 * img[p] - bg, 0)]
        IN  /\ IsMedian2(img, bg)
            /\ {df[i].label : i \in 1..n} = PositiveLabels(label_img)
            /\ \A i \in 1..(n - 1) : df[i].label < df[i + 1].label
            /\ SumFn([i \in 1..n |-> df[i].area], 1..n)
                 = Cardinality({p \in DOMAIN label_img : label_img[p] # 0})
            /\ \A i \in 1..n :
                  LET region == RegionOf(label_img, df[i].label)
                      mean == df[i].mean_intensity
                      total == df[i].integrated_intensity
                  IN  /\ df[i].area = Cardinality(region)
                      /\ df[i].area >= 1
                      /\ mean.num * 2 * df[i].area = mean.den * SumFn(corrected, region)
                      /\ total.num * mean.den = df[i].area * mean.num * total.den
                      /\ df[i].image_id = Stem(image_path)

\* A call that returned a table with at least two rows, one of them for a
\* nucleus of several pixels.
C2_Witness ==
    /\ pc = "done"
    /\ Len(df) >= 2
    /\ \E i \in 1..Len(df) : df[i].area >= 2

\* --------------------------------------------------------------------- C3
\* C3: the label image is 0 exactly off the cleaned mask; its positive
\* values are exactly 1..k, k the number of connected regions of the mask;
\* two mask pixels carry the same label iff they lie in the same region
\* (regions joined through edges or corners, as the labeler joins them).
C3_LabelImage ==
    pc = "measure" =>
        LET regions == Regions8(nuc_mask)
            k == Cardinality(regions)
        IN  /\ DOMAIN label_img = AllPixels
            /\ \A p \in AllPixels : label_img[p] = 0 <=> p \notin nuc_mask
            /\ PositiveLabels(label_img) = 1..k
            /\ \A R \in regions : \E l \in 1..k : RegionOf(label_img, l) = R

\* A labelled mask of several regions, one of them held together by a corner
\* contact only.
C3_Witness ==
    /\ pc = "measure"
    /\ Cardinality(PositiveLabels(label_img)) >= 2
    /\ \E p \in nuc_mask : Region4(nuc_mask, {p}) # Region8(nuc_mask, {p})

\* --------------------------------------------------------------------- C4
\* C4: for min_nucleus_size >= 0, small-object removal keeps in full every
\* region of the thresholded mask (region in the labeler's sense) with at
\* least min_nucleus_size pixels and clears every smaller one.
C4_RemovalMatchesLabeler ==
    (pc = "fill_holes" /\ min_nucleus_size >= 0) =>
        \A R \in Regions8(Thresholded) :
            IF Cardinality(R) >= min_nucleus_size
            THEN R \subseteq nuc_mask
            ELSE R \cap nuc_mask = {}

\* --------------------------------------------------------------------- C5
\* The cleanup never turns into foreground a background pixel whose
\* edge-connected background region touches the image border.
OpenBackgroundKept ==
    pc \in {"remove_small", "fill_holes"} =>
        \A p \in OpenBackground(nuc_mask) : p \notin nuc_mask'

\* C5 as claimed: when the thresholded mask is a single ring enclosing one
\* background pixel, that pixel is foreground after hole filling; and no
\* background pixel of a region touching the border is ever filled.
C5_RingAlwaysFilled ==
    [][/\ (pc = "fill_holes" /\ IsRing(Thresholded)) => Holes(Thresholded) \subseteq nuc_mask'
       /\ OpenBackgroundKept]_vars

\* C5 amended: the same, for a ring that small-object removal left in place.
C5_KeptRingFilled ==
    [][/\ (pc = "fill_holes" /\ IsRing(Thresholded) /\ Thresholded \subseteq nuc_mask)
            => Holes(Thresholded) \subseteq nuc_mask'
       /\ OpenBackgroundKept]_vars

\* A ring that survived the removal, with its hole filled.
C5_Witness ==
    /\ pc = "label"
    /\ IsRing(Thresholded)
    /\ Thresholded \subseteq nuc_mask
    /\ Holes(Thresholded) \subseteq nuc_mask
    /\ Holes(Thresholded) # {}

\* --------------------------------------------------------------------- C6
ZeroInput == \A p \in DOMAIN InputImage.data : InputImage.data[p] = 0

\* C6: on an all-zero image, for min_nucleus_size >= 0, the call never
\* raises and runs to its end, the mask is empty at every stage, the label
\* image is 0 everywhere on the input's grid and the table has no rows.
C6_ZeroImage ==
    (ZeroInput /\ min_nucleus_size >= 0) =>
        /\ pc # "raised"
        /\ pc # "done" => ENABLED Next
        /\ pc \in {"remove_small", "fill_holes", "label", "measure", "done"} => nuc_mask = {}
        /\ pc \in {"measure", "done"} => label_img = [p \in AllPixels |-> 0]
        /\ pc = "done" => df = <<>>

\* A finished call on an all-zero image that is not square.
C6_Witness ==
    /\ pc = "done"
    /\ ZeroInput
    /\ min_nucleus_size >= 0
    /\ InputImage.shape[1] # InputImage.shape[2]

\* --------------------------------------------------------------------- C7
\* C7: with a negative min_nucleus_size the call fails: it never gets past
\* the small-object removal and writes no file.
C7_NegativeSizeRejected ==
    min_nucleus_size < 0 =>
        /\ pc \notin {"fill_holes", "label", "measure", "done"}
        /\ DOMAIN disk = {}

\* -------------------------------------------------------------------- C10
\* C10: for min_nucleus_size >= 1 every row of the returned table has
\* area >= min_nucleus_size.
C10_AreaFloor ==
    (pc = "done" /\ min_nucleus_size >= 1) =>
        \A i \in 1..Len(df) : df[i].area >= min_nucleus_size

\* A returned nucleus made of two pieces that the removal step sized
\* separately and the labeler joined.
C10_Witness ==
    /\ pc = "done"
    /\ min_nucleus_size >= 2
    /\ \E i \in 1..Len(df) :
          \E p \in RegionOf(label_img, df[i].label) :
              Region4(nuc_mask, {p}) # RegionOf(label_img, df[i].label)

\* ---------------------------------------------------------------- C8, C9
MatchedStems == {n.stem : n \in {m \in DOMAIN input_dir : m.ext = ".tif"}}
Outputs(s) == {LabelsPath(s), OverlayPath(s), BoundariesPath(s)}
Complete(s) == Outputs(s) \subseteq DOMAIN disk
Started(s) == Outputs(s) \cap DOMAIN disk # {}
CsvWritten == CsvPath \in DOMAIN disk

\* The nuclei of image s, read from its label file.
Nuclei(s) == PositiveLabels(disk[LabelsPath(s)])

\* C8: the CSV holds, in file-name order, exactly the rows of every matching
\* image: for each image as many rows as its label file has nuclei (none for
\* an image without nuclei), each tagged with that image's id; the row count
\* is the sum of the nucleus counts; no two rows share (image_id, label).
C8_Aggregation ==
    (pc = "done" /\ CsvWritten) =>
        LET csv == disk[CsvPath]
            n == Len(csv)
            rowsOf(s) == {i \in 1..n : csv[i].image_id = s}
        IN  /\ \A s \in MatchedStems :
                  /\ Cardinality(rowsOf(s)) = Cardinality(Nuclei(s))
                  /\ {csv[i].label : i \in rowsOf(s)} = Nuclei(s)
            /\ \A i \in 1..n :
                  /\ csv[i].image_id \in MatchedStems
                  /\ csv[i].area = Cardinality(RegionOf(disk[LabelsPath(csv[i].image_id)],
                                                        csv[i].label))
            /\ n = SumFn([s \in MatchedStems |-> Cardinality(Nuclei(s))], MatchedStems)
            /\ \A i, j \in 1..n :
                  i < j => \/ csv[i].image_id < csv[j].image_id
                           \/ (csv[i].image_id = csv[j].image_id /\ csv[i].label < csv[j].label)

\* Three images with 5, 0 and 3 nuclei, in that order, gave 8 rows.
C8_Witness ==
    /\ pc = "done"
    /\ CsvWritten
    /\ MatchedStems = {1, 2, 3}
    /\ Cardinality(Nuclei(1)) = 5 /\ Nuclei(2) = {} /\ Cardinality(Nuclei(3)) = 3
    /\ Len(disk[CsvPath]) = 8

\* C9: the CSV is written only at the end of the run, after every matching
\* image has its label file, overlay and boundary image, and nothing runs
\* after it (so it is written at most once); an image has all its outputs
\* before a later one has any; a run that raised has written no CSV and does
\* nothing more; a run that matched no image writes no CSV and reports that
\* no measurements were saved.
C9_CsvLast ==
    /\ CsvWritten => (pc = "done" /\ \A s \in MatchedStems : Complete(s))
    /\ \A s, t \in MatchedStems : (s < t /\ Started(t)) => Complete(s)
    /\ pc = "raised" => (~CsvWritten /\ ~ENABLED PipelineNext)
    /\ pc = "done" => ~ENABLED PipelineNext
    /\ (pc = "done" /\ MatchedStems = {}) =>
          /\ ~CsvWritten
          /\ console = << <<"No images processed. No measurements saved.">> >>

\* A finished run that wrote the CSV after processing several images.
C9_Witness ==
    /\ pc = "done"
    /\ CsvWritten
    /\ Cardinality(MatchedStems) >= 2
    /\ \A s \in MatchedStems : Complete(s)

====
